---- MODULE Spec2Model ----
(***************************************************************************)
(* Model of gfx::render::Renderer (src/src/gfx/render/mod.rs).             *)
(*                                                                         *)
(* The renderer is one sequential process.  It talks to the device         *)
(* executor over a pair of FIFO channels: `chan` (renderer -> device,      *)
(* Call* requests and Cast* commands) and `reply` (device -> renderer).    *)
(* A public operation runs atomically up to each blocking recv(); the      *)
(* position of the renderer between two steps is `pc`.                     *)
(***************************************************************************)
EXTENDS Integers, Sequences, FiniteSets, TLC

VARIABLES
    pc,                    \* position of the renderer: "idle", a recv point, "returned", "failed"
    args,                  \* arguments and locals of the operation in progress
    chan,                  \* device.send(): Call* requests the executor has not answered yet
    reply,                 \* device.recv(): replies not yet taken by the renderer
    common_array_buffer,   \* Option<ArrayBuffer>: <<>> is None, <<h>> is Some(h)
    meshes,                \* cache.meshes
    programs,              \* cache.programs
    environments,          \* cache.environments
    sent,                  \* history: messages sent by the current / last operation
    last,                  \* history: the current / last operation and how it ended
    outstanding,           \* history: Call* requests sent minus replies received
    hist,                  \* history: what earlier operations requested, wrote and bound
    nops                   \* history: number of cache-changing operations started

vars == <<pc, args, chan, reply, common_array_buffer, meshes, programs,
          environments, sent, last, outstanding, hist, nops>>

----------------------------------------------------------------------------
(* Bounds of the model *)

\* number of cache-changing operations (create_program, create_mesh,
\* create_environment, set_env_*) one behaviour starts
MaxOps == 4
\* largest length of each of the three caches
MaxCache == 2
\* most attributes of a mesh, and of a program, handed to bind_mesh alone
MaxAttrs == 2
\* most blocks, and most uniforms, of a program handed to bind_environment alone
MaxVars == 2

----------------------------------------------------------------------------
(* Program constants *)

\* Renderer::new: default_frame_buffer: 0
default_frame_buffer == 0
\* create_program: the handle returned on ReplyNewProgram(Err(_))
InvalidProgramHandle == 0
\* width of the `as u8` casts
U8 == 256

ToU8(x) == x % U8

Min(S) == CHOOSE x \in S : \A y \in S : x <= y

MinOf(a, b) == IF a <= b THEN a ELSE b

\* Option<T>: None is <<>>, Some(x) is <<x>>
None == <<>>

Some(x) == <<x>>

\* no return value (yet), no arguments
NoRet == None

NoArgs == <<>>

\* Option::unwrap_or
unwrap_or(opt, d) == IF opt = None THEN d ELSE opt[1]

----------------------------------------------------------------------------
(* Input domains: what the application passes and what the executor answers *)

BufferNames == {1, 2}

ArrayBufferNames == {7, 8}

ShaderNames == {5}

ShaderSources == {"src"}

UniformValues == {1, 2}

\* (count, stride) pairs of create_mesh
MeshLayouts == {<<3, 12>>}

VertexSlice(start, end) == <<"VertexSlice", start, end>>

IndexSlice(buf, start, end) == <<"IndexSlice", buf, start, end>>

Slices == {VertexSlice(0, 3), IndexSlice(2, 3, 6)}

\* target::ClearData.color
ClearColors == {None, Some("red")}

\* handles the application may pass (not all of them are issued)
Handles == 0 .. (MaxCache - 1)

\* device::shade::ProgramMeta and its variable descriptors
AttributeVar(n, loc) == [name |-> n, location |-> loc]

BlockVar(n) == [name |-> n, active_slot |-> 0]

UniformVar(n, loc) == [name |-> n, location |-> loc, active_value |-> 0]

TextureVar(n) == [name |-> n]

ProgramMeta(nm, as, bs, us, ts) ==
    [name |-> nm, attributes |-> as, blocks |-> bs, uniforms |-> us, textures |-> ts]

\* the program descriptors the executor may answer a link request with
ProgramMetas ==
    { ProgramMeta(1, <<AttributeVar("a_Pos", 0)>>, <<>>, <<>>, <<>>),
      ProgramMeta(2, <<AttributeVar("a_Pos", 1)>>, <<BlockVar("b_Data")>>,
                  <<UniformVar("u_Color", 3), UniformVar("u_Time", 5)>>, <<>>),
      ProgramMeta(3, <<AttributeVar("a_Pos", 0), AttributeVar("a_Normal", 1)>>,
                  <<>>, <<>>, <<>>),
      ProgramMeta(4, <<AttributeVar("a_Pos", 0)>>, <<>>, <<>>,
                  <<TextureVar("t_Tex")>>) }

\* envir::Storage: three mappings name -> binding
Storage(bs, us, ts) == [blocks |-> bs, uniforms |-> us, textures |-> ts]

NoBinding == [n \in {} |-> 0]

Storages ==
    { Storage(NoBinding, NoBinding, NoBinding),
      Storage([n \in {"b_Data"} |-> 1], [n \in {"u_Color"} |-> 1], NoBinding),
      Storage([n \in {"b_Data"} |-> 1],
              [n \in {"u_Color", "u_Time"} |-> IF n = "u_Color" THEN 1 ELSE 2],
              NoBinding) }

BlockNames == {"b_Data"}

UniformNames == {"u_Color", "u_Time"}

TextureNames == {"t_Tex"}

----------------------------------------------------------------------------
(* envir::Storage *)

\* set_block / set_uniform / set_texture: upsert, last write wins
Upsert(f, k, v) == [n \in (DOMAIN f) \cup {k} |-> IF n = k THEN v ELSE f[n]]

set_block(st, var, buf) == [st EXCEPT !.blocks = Upsert(st.blocks, var, buf)]

set_uniform(st, var, value) == [st EXCEPT !.uniforms = Upsert(st.uniforms, var, value)]

set_texture(st, var, texture, sampler) ==
    [st EXCEPT !.textures = Upsert(st.textures, var, <<texture, sampler>>)]

get_block(st, k) == st.blocks[k]

get_uniform(st, k) == st.uniforms[k]

\* indices of the declared variables whose name the mapping lacks
Missing(decl, mapping) == {i \in 1 .. Len(decl) : decl[i].name \notin DOMAIN mapping}

KeysOf(decl) == [i \in 1 .. Len(decl) |-> decl[i].name]

EmptyShortcut == [blocks |-> <<>>, uniforms |-> <<>>, textures |-> <<>>]

\* optimize: blocks, then uniforms, then textures, each in declared order;
\* the first missing name fails the whole optimization
optimize(st, prog) ==
    LET mb == Missing(prog.blocks, st.blocks)
        mu == Missing(prog.uniforms, st.uniforms)
        mt == Missing(prog.textures, st.textures)
    IN  IF mb # {}
        THEN [ok |-> FALSE, err |-> <<"block", prog.blocks[Min(mb)].name>>,
              cut |-> EmptyShortcut]
        ELSE IF mu # {}
        THEN [ok |-> FALSE, err |-> <<"uniform", prog.uniforms[Min(mu)].name>>,
              cut |-> EmptyShortcut]
        ELSE IF mt # {}
        THEN [ok |-> FALSE, err |-> <<"texture", prog.textures[Min(mt)].name>>,
              cut |-> EmptyShortcut]
        ELSE [ok |-> TRUE, err |-> <<>>,
              cut |-> [blocks |-> KeysOf(prog.blocks),
                       uniforms |-> KeysOf(prog.uniforms),
                       textures |-> KeysOf(prog.textures)]]

\* is_fit: the shortcut's lengths match the program's declared counts
is_fit(cut, prog) ==
    /\ Len(cut.blocks) = Len(prog.blocks)
    /\ Len(cut.uniforms) = Len(prog.uniforms)
    /\ Len(cut.textures) = Len(prog.textures)

----------------------------------------------------------------------------
(* Messages.  A message is a tuple whose first element is its kind. *)

Kind(m) == m[1]

IsCall(m) == Kind(m) \in {"CallNewArrayBuffer", "CallNewShader", "CallNewProgram",
                          "CallNewVertexBuffer", "CallNewIndexBuffer",
                          "CallNewRawBuffer"}

IsDrawCmd(m) == Kind(m) \in {"CastDraw", "CastDrawIndexed"}

\* the messages of s whose kind is in ks, in order
OfKinds(s, ks) == SelectSeq(s, LAMBDA m : Kind(m) \in ks)

\* the fire-and-forget commands of s, in order
Casts(s) == SelectSeq(s, LAMBDA m : ~IsCall(m))

----------------------------------------------------------------------------
(* Renderer: private helpers *)

\* mutant: the default target is taken to be bound already; nothing is sent
bind_frame_unbound(frame_opt) ==
    [cmds |-> <<>>, fatal |-> frame_opt # None]

\* bind_frame: the commands it sends and whether it ends in unimplemented!()
bind_frame(frame_opt) ==
    IF frame_opt # None
    THEN [cmds |-> <<>>, fatal |-> TRUE]
    ELSE [cmds |-> <<<<"CastBindFrameBuffer", default_frame_buffer>>>>,
          fatal |-> FALSE]

\* mutant: a declared attribute the mesh lacks is passed over
bind_mesh_lenient(mesh, prog) ==
    LET has(i) == \E j \in 1 .. Len(mesh.attributes) :
                      mesh.attributes[j].name = prog.attributes[i].name
        find(i) == mesh.attributes[
                      Min({j \in 1 .. Len(mesh.attributes) :
                              mesh.attributes[j].name = prog.attributes[i].name})]
        found == SelectSeq([i \in 1 .. Len(prog.attributes) |-> i], has)
    IN  [ok   |-> TRUE,
         cmds |-> [k \in 1 .. Len(found) |->
                     <<"CastBindAttribute", ToU8(prog.attributes[found[k]].location),
                       find(found[k]).buffer, find(found[k]).size,
                       find(found[k]).offset, find(found[k]).stride>>]]

\* mutant: the attributes are bound only when the mesh has all of them
bind_mesh_atomic(mesh, prog) ==
    LET r == bind_mesh_lenient(mesh, prog)
        n == Len(prog.attributes)
    IN  [ok   |-> Len(r.cmds) = n,
         cmds |-> IF Len(r.cmds) = n THEN r.cmds ELSE <<>>]

\* bind_mesh: one bind-attribute per declared attribute, up to the first one
\* the mesh has no attribute for
bind_mesh(mesh, prog) ==
    LET has(i) == \E j \in 1 .. Len(mesh.attributes) :
                      mesh.attributes[j].name = prog.attributes[i].name
        find(i) == mesh.attributes[
                      Min({j \in 1 .. Len(mesh.attributes) :
                              mesh.attributes[j].name = prog.attributes[i].name})]
        miss == {i \in 1 .. Len(prog.attributes) : ~has(i)}
        n    == IF miss = {} THEN Len(prog.attributes) ELSE Min(miss) - 1
    IN  [ok   |-> miss = {},
         cmds |-> [i \in 1 .. n |->
                     <<"CastBindAttribute", ToU8(prog.attributes[i].location),
                       find(i).buffer, find(i).size, find(i).offset,
                       find(i).stride>>]]

\* the bind-uniform-block commands of bind_environment
BlockCmds(st, cut, prog) ==
    [i \in 1 .. MinOf(Len(cut.blocks), Len(prog.blocks)) |->
        <<"CastBindUniformBlock", prog.name, ToU8(i - 1), i - 1,
          get_block(st, cut.blocks[i])>>]

\* mutant: a uniform bound before keeps the value of its active-value cell
UniformCmdsCached(st, cut, prog) ==
    [i \in 1 .. MinOf(Len(cut.uniforms), Len(prog.uniforms)) |->
        <<"CastBindUniform", prog.uniforms[i].location,
          IF prog.uniforms[i].active_value # 0
          THEN prog.uniforms[i].active_value
          ELSE get_uniform(st, cut.uniforms[i])>>]

\* mutant: the uniforms are bound last to first
UniformCmdsReversed(st, cut, prog) ==
    LET n == MinOf(Len(cut.uniforms), Len(prog.uniforms))
    IN  [i \in 1 .. n |->
            <<"CastBindUniform", prog.uniforms[n + 1 - i].location,
              get_uniform(st, cut.uniforms[n + 1 - i])>>]

\* the bind-uniform commands of bind_environment
UniformCmds(st, cut, prog) ==
    [i \in 1 .. MinOf(Len(cut.uniforms), Len(prog.uniforms)) |->
        <<"CastBindUniform", prog.uniforms[i].location,
          get_uniform(st, cut.uniforms[i])>>]

\* the program after bind_environment has set its active_slot / active_value cells
ActiveSet(st, cut, prog) ==
    [prog EXCEPT
        !.blocks = [i \in 1 .. Len(prog.blocks) |->
                      IF i <= Len(cut.blocks)
                      THEN [prog.blocks[i] EXCEPT !.active_slot = ToU8(i - 1)]
                      ELSE prog.blocks[i]],
        !.uniforms = [i \in 1 .. Len(prog.uniforms) |->
                      IF i <= Len(cut.uniforms)
                      THEN [prog.uniforms[i] EXCEPT
                               !.active_value = get_uniform(st, cut.uniforms[i])]
                      ELSE prog.uniforms[i]]]

\* bind_environment: the assertion, bind-program, the blocks, the uniforms, and
\* unimplemented!() at the first texture
bind_environment(st, cut, prog) ==
    IF ~is_fit(cut, prog)
    THEN [cmds |-> <<>>, prog |-> prog, fatal |-> TRUE, fit |-> FALSE]
    ELSE [cmds |-> <<<<"CastBindProgram", prog.name>>>>
                     \o BlockCmds(st, cut, prog) \o UniformCmds(st, cut, prog),
          prog |-> ActiveSet(st, cut, prog),
          fatal |-> MinOf(Len(cut.textures), Len(prog.textures)) > 0,
          fit |-> TRUE]

\* mutant: the indexed draw goes without its bind-index
SliceCmdsNoIndex(slice) ==
    IF slice[1] = "VertexSlice"
    THEN <<<<"CastDraw", slice[2], slice[3]>>>>
    ELSE <<<<"CastDrawIndexed", slice[3], slice[4]>>>>

\* the commands of the slice match at the end of draw
SliceCmds(slice) ==
    IF slice[1] = "VertexSlice"
    THEN <<<<"CastDraw", slice[2], slice[3]>>>>
    ELSE <<<<"CastBindIndex", slice[2]>>, <<"CastDrawIndexed", slice[3], slice[4]>>>>

InCache(h, cache) == h < Len(cache)

\* Vec::get(handle): handles count from 0
Get(cache, h) == cache[h + 1]

\* mutant: the optimize failure is unwrapped, a fatal fault
OnOptimizeErrorUnwrap(progs) ==
    [cmds |-> <<>>, outcome |-> "fatal", stage |-> "optimize", programs |-> progs,
     cut |-> None]

\* draw, lines 96-99: the optimize step failed; the draw is skipped
OnOptimizeError(progs) ==
    [cmds |-> <<>>, outcome |-> "skipped", stage |-> "optimize", programs |-> progs,
     cut |-> None]

\* mutant: the shared vertex array is bound before the shaders
BindArrayThenShaders(envCmds, ab) == <<<<"CastBindArrayBuffer", ab>>>> \o envCmds

\* draw, lines 95-102: the commands of bind_environment, then bind-array-buffer
BindShadersThenArray(envCmds, ab) == envCmds \o <<<<"CastBindArrayBuffer", ab>>>>

\* mutant: the draw is issued before the vertex attributes are bound
DrawThenBindMesh(attrCmds, slice) == SliceCmds(slice) \o attrCmds

\* draw, lines 104-114: the commands of bind_mesh, then those of the slice
BindMeshThenDraw(attrCmds, slice) == attrCmds \o SliceCmds(slice)

\* mutant: the shortcut is built for the first program of the cache
OptimizeForFirst(env, progs, a) == optimize(env, Get(progs, 0))

\* draw, lines 92-94: env.optimize(program) for the program of the call
OptimizeFor(env, progs, a) == optimize(env, Get(progs, a.program))

\* draw after get_common_array_buffer, with the shared vertex-array handle ab
\* in hand: the commands it sends, how and where it ends, the program cache
\* afterwards, and the shortcut it handed to bind_environment
DrawRest(ab, a, progs, envs, mshs) ==
    IF ~InCache(a.program, progs)
    THEN [cmds |-> <<>>, outcome |-> "fatal", stage |-> "program", programs |-> progs,
          cut |-> None]
    ELSE IF ~InCache(a.env, envs)
    THEN [cmds |-> <<>>, outcome |-> "fatal", stage |-> "environment",
          programs |-> progs, cut |-> None]
    ELSE
    LET program == Get(progs, a.program)
        env     == Get(envs, a.env)
        opt     == OptimizeFor(env, progs, a)
        be      == bind_environment(env, opt.cut, program)
        progs2  == [progs EXCEPT ![a.program + 1] = be.prog]
        c1      == BindShadersThenArray(be.cmds, ab)
        bm      == bind_mesh(Get(mshs, a.mesh), Get(progs2, a.program))
    IN  IF ~opt.ok
        THEN OnOptimizeError(progs)
        ELSE IF ~be.fit
        THEN [cmds |-> <<>>, outcome |-> "fatal", stage |-> "is_fit",
              programs |-> progs, cut |-> Some(opt.cut)]
        ELSE IF be.fatal
        THEN [cmds |-> be.cmds, outcome |-> "fatal", stage |-> "textures",
              programs |-> progs2, cut |-> Some(opt.cut)]
        ELSE IF ~InCache(a.mesh, mshs)
        THEN [cmds |-> c1, outcome |-> "fatal", stage |-> "mesh",
              programs |-> progs2, cut |-> Some(opt.cut)]
        ELSE IF ~bm.ok
        THEN [cmds |-> c1 \o bm.cmds, outcome |-> "fatal", stage |-> "bind_mesh",
              programs |-> progs2, cut |-> Some(opt.cut)]
        ELSE [cmds |-> c1 \o BindMeshThenDraw(bm.cmds, a.slice), outcome |-> "ok",
              stage |-> "done", programs |-> progs2, cut |-> Some(opt.cut)]

----------------------------------------------------------------------------
(* State *)

\* the Call* requests of msgs, in order: what the executor has to answer
Calls(msgs) == SelectSeq(msgs, IsCall)

NumCalls(msgs) == Len(Calls(msgs))

LastOf(op, a, outcome, stage, ret) ==
    [op |-> op, a |-> a, outcome |-> outcome, stage |-> stage, ret |-> ret,
     cut |-> None]

PcAfter(outcome) == IF outcome = "fatal" THEN "failed" ELSE "returned"

\* the history of a new renderer: no new-array-buffer request sent or
\* answered; per environment handle, no uniform written by set_env_uniform,
\* none bound or found missing by a draw, none rewritten or filled in since
HistInit ==
    [ab_calls |-> 0,
     ab_reply |-> None,
     written  |-> [h \in Handles |-> NoBinding],
     bound    |-> [h \in Handles |-> NoBinding],
     skipped  |-> [h \in Handles |-> {}],
     stale    |-> [h \in Handles |-> {}],
     filled   |-> [h \in Handles |-> {}]]

\* get_common_array_buffer has sent its request
LogArrayBufferCall(h) == [h EXCEPT !.ab_calls = @ + 1]

\* the names of the uniforms prog declares
UniformNamesOf(prog) == {prog.uniforms[i].name : i \in 1 .. Len(prog.uniforms)}

\* a draw has ended as r says: a skipped draw leaves the uniform names its
\* environment lacked, a completed one the values it bound
LogDraw(h, a, r, progs, envs) ==
    IF r.outcome = "skipped"
    THEN [h EXCEPT !.skipped[a.env] =
             @ \cup (UniformNamesOf(Get(progs, a.program))
                        \ DOMAIN Get(envs, a.env).uniforms)]
    ELSE IF r.outcome = "ok"
    THEN [h EXCEPT !.bound[a.env] =
             [n \in UniformNamesOf(Get(progs, a.program)) |->
                 get_uniform(Get(envs, a.env), n)]]
    ELSE h

\* set_env_uniform(a.handle, a.var, a.value) has written: the value is the
\* latest one; the name is stale if a draw bound another value for it, and
\* filled in if a draw was skipped for want of it
LogSet(h, op, a, envs) ==
    IF op # "set_env_uniform"
    THEN h
    ELSE [h EXCEPT
            !.written[a.handle] = Upsert(@, a.var, a.value),
            !.stale[a.handle] =
                IF a.var \in DOMAIN h.bound[a.handle]
                   /\ h.bound[a.handle][a.var] # a.value
                THEN @ \cup {a.var} ELSE @,
            !.filled[a.handle] =
                IF a.var \in h.skipped[a.handle]
                   /\ a.var \notin DOMAIN Get(envs, a.handle).uniforms
                THEN @ \cup {a.var} ELSE @]

\* Renderer::new
Init ==
    /\ pc = "idle"
    /\ args = NoArgs
    /\ chan = <<>>
    /\ reply = <<>>
    /\ common_array_buffer = None
    /\ meshes = <<>>
    /\ programs = <<>>
    /\ environments = <<>>
    /\ sent = <<>>
    /\ last = LastOf("none", NoArgs, "ok", "done", NoRet)
    /\ outstanding = 0
    /\ hist = HistInit
    /\ nops = 0

\* a public operation that changes a cache is entered: the renderer is
\* between operations
Enter ==
    /\ pc = "idle"
    /\ nops < MaxOps
    /\ nops' = nops + 1

\* a public operation that leaves the caches as they are is entered
EnterFree ==
    /\ pc = "idle"
    /\ nops' = nops

\* the operation sends msgs as its first messages
SendFirst(msgs) ==
    /\ chan' = chan \o Calls(msgs)
    /\ sent' = msgs
    /\ outstanding' = outstanding + NumCalls(msgs)

\* the operation in progress sends msgs after the reply it has just received
SendMore(msgs) ==
    /\ chan' = chan \o Calls(msgs)
    /\ sent' = sent \o msgs
    /\ outstanding' = outstanding - 1 + NumCalls(msgs)

\* mutant: the reply is read but left in the channel
RecvPeek(p) ==
    /\ pc = p
    /\ reply # <<>>
    /\ reply' = reply
    /\ nops' = nops

\* device.recv() at position p: blocks until a reply is there
Recv(p) ==
    /\ pc = p
    /\ reply # <<>>
    /\ reply' = Tail(reply)
    /\ nops' = nops

----------------------------------------------------------------------------
(* Renderer: public operations *)

\* mutant: a missing clear colour clears to black
ClearCmdsBlack(color) == <<<<"CastClear", unwrap_or(color, "black")>>>>

\* clear, lines 80-83: the command of the match on data.color
ClearCmds(color) ==
    IF color = None THEN <<>> ELSE <<<<"CastClear", color[1]>>>>

\* clear(data, frame)
Clear(color, frame) ==
    LET bf   == bind_frame(frame)
        cmds == IF bf.fatal THEN bf.cmds ELSE bf.cmds \o ClearCmds(color)
        out  == IF bf.fatal \/ color = None THEN "fatal" ELSE "ok"
        stg  == IF bf.fatal THEN "frame" ELSE IF color = None THEN "color" ELSE "done"
    IN  /\ EnterFree
        /\ SendFirst(cmds)
        /\ pc' = PcAfter(out)
        /\ last' = LastOf("clear", [color |-> color, frame |-> frame], out, stg, NoRet)
        /\ UNCHANGED <<args, reply, common_array_buffer, meshes, programs,
                       environments, hist>>

\* mutant: the shared vertex array is requested by every draw
NeedsArrayBufferAlways(cab) == TRUE

\* get_common_array_buffer, lines 63-65: the request is sent when none is recorded
NeedsArrayBuffer(cab) == cab = None

\* mutant: whatever the reply carries is taken for the vertex-array handle
ArrayBufferOfAny(rep) == Some(rep[2])

\* get_common_array_buffer, lines 67-73: the handle of the reply, None for fail!
ArrayBufferOf(rep) ==
    IF Kind(rep) = "ReplyNewArrayBuffer" THEN Some(rep[2]) ELSE None

\* draw(mesh_handle, slice, frame, program_handle, env_handle), up to the
\* recv of get_common_array_buffer, or to its end when the shared vertex
\* array already exists
Draw(m, slice, frame, p, e) ==
    LET a  == [mesh |-> m, slice |-> slice, frame |-> frame, program |-> p, env |-> e]
        bf == bind_frame(frame)
        r  == DrawRest(common_array_buffer[1], a, programs, environments, meshes)
    IN  /\ EnterFree
        /\ IF bf.fatal
           THEN /\ SendFirst(bf.cmds)
                /\ pc' = "failed"
                /\ last' = LastOf("draw", a, "fatal", "frame", NoRet)
                /\ UNCHANGED <<args, programs, hist>>
           ELSE IF NeedsArrayBuffer(common_array_buffer)
           THEN /\ SendFirst(bf.cmds \o <<<<"CallNewArrayBuffer">>>>)
                /\ pc' = "draw_ab"
                /\ args' = a
                /\ last' = LastOf("draw", a, "running", "array_buffer", NoRet)
                /\ hist' = LogArrayBufferCall(hist)
                /\ UNCHANGED programs
           ELSE /\ SendFirst(bf.cmds \o r.cmds)
                /\ pc' = PcAfter(r.outcome)
                /\ programs' = r.programs
                /\ last' = [LastOf("draw", a, r.outcome, r.stage, NoRet)
                               EXCEPT !.cut = r.cut]
                /\ hist' = LogDraw(hist, a, r, programs, environments)
                /\ UNCHANGED args
        /\ UNCHANGED <<reply, common_array_buffer, meshes, environments>>

\* draw, from the reply of get_common_array_buffer to its end
DrawRecvArrayBuffer ==
    LET ab == ArrayBufferOf(Head(reply))
        r  == DrawRest(ab[1], args, programs, environments, meshes)
    IN  /\ Recv("draw_ab")
        /\ args' = NoArgs
        /\ IF ab # None
           THEN /\ common_array_buffer' = ab
                /\ SendMore(r.cmds)
                /\ pc' = PcAfter(r.outcome)
                /\ programs' = r.programs
                /\ last' = [last EXCEPT !.outcome = r.outcome, !.stage = r.stage,
                                        !.cut = r.cut]
                /\ hist' = LogDraw(hist, args, r, programs, environments)
           ELSE /\ SendMore(<<>>)
                /\ pc' = "failed"
                /\ last' = [last EXCEPT !.outcome = "fatal"]
                /\ UNCHANGED <<common_array_buffer, programs, hist>>
        /\ UNCHANGED <<meshes, environments>>

\* mutant: the frame is presented twice
EndFrameCmdsTwice == <<<<"CastSwapBuffers">>, <<"CastSwapBuffers">>>>

\* end_frame, line 118: the command it sends
EndFrameCmds == <<<<"CastSwapBuffers">>>>

\* end_frame()
EndFrame ==
    /\ EnterFree
    /\ SendFirst(EndFrameCmds)
    /\ pc' = "returned"
    /\ last' = LastOf("end_frame", NoArgs, "ok", "done", NoRet)
    /\ UNCHANGED <<args, reply, common_array_buffer, meshes, programs,
                   environments, hist>>

\* create_program(vs_src, fs_src), up to the first recv
CreateProgram(vs_src, fs_src) ==
    /\ Enter
    /\ Len(programs) < MaxCache
    /\ SendFirst(<<<<"CallNewShader", "Vertex", vs_src>>,
                   <<"CallNewShader", "Fragment", fs_src>>>>)
    /\ pc' = "cp_vs"
    /\ args' = [vs_src |-> vs_src, fs_src |-> fs_src, before |-> programs]
    /\ last' = LastOf("create_program", args', "running", "vertex", NoRet)
    /\ UNCHANGED <<reply, common_array_buffer, meshes, programs, environments, hist>>

\* create_program: the reply to the vertex shader request
CreateProgramRecvVs ==
    LET rep == Head(reply)
    IN  /\ Recv("cp_vs")
        /\ SendMore(<<>>)
        /\ IF Kind(rep) = "ReplyNewShader"
           THEN /\ pc' = "cp_fs"
                /\ args' = [h_vs |-> unwrap_or(rep[2], 0)]
                /\ last' = [last EXCEPT !.stage = "fragment"]
           ELSE /\ pc' = "failed"
                /\ args' = NoArgs
                /\ last' = [last EXCEPT !.outcome = "fatal"]
        /\ UNCHANGED <<common_array_buffer, meshes, programs, environments, hist>>

\* create_program: the reply to the fragment shader request, then the link request
CreateProgramRecvFs ==
    LET rep  == Head(reply)
        h_fs == unwrap_or(rep[2], 0)
    IN  /\ Recv("cp_fs")
        /\ IF Kind(rep) = "ReplyNewShader"
           THEN /\ SendMore(<<<<"CallNewProgram", <<args.h_vs, h_fs>>>>>>)
                /\ pc' = "cp_link"
                /\ last' = [last EXCEPT !.stage = "link"]
           ELSE /\ SendMore(<<>>)
                /\ pc' = "failed"
                /\ last' = [last EXCEPT !.outcome = "fatal"]
        /\ args' = NoArgs
        /\ UNCHANGED <<common_array_buffer, meshes, programs, environments, hist>>

\* mutant: the failed program is cached too
LinkResultCachesFailure(rep, progs) ==
    IF Kind(rep) = "ReplyNewProgram" /\ rep[2] = "Ok"
    THEN [programs |-> Append(progs, rep[3]), outcome |-> "ok",
          ret |-> Some(Len(Append(progs, rep[3])) - 1)]
    ELSE IF Kind(rep) = "ReplyNewProgram"
    THEN [programs |-> Append(progs, ProgramMeta(0, <<>>, <<>>, <<>>, <<>>)),
          outcome |-> "link_failed", ret |-> Some(InvalidProgramHandle)]
    ELSE [programs |-> progs, outcome |-> "fatal", ret |-> NoRet]

\* create_program, lines 133-140: what the reply to the link request leads to
LinkResult(rep, progs) ==
    IF Kind(rep) = "ReplyNewProgram" /\ rep[2] = "Ok"
    THEN [programs |-> Append(progs, rep[3]), outcome |-> "ok",
          ret |-> Some(Len(Append(progs, rep[3])) - 1)]
    ELSE IF Kind(rep) = "ReplyNewProgram"
    THEN [programs |-> progs, outcome |-> "link_failed", ret |-> Some(InvalidProgramHandle)]
    ELSE [programs |-> progs, outcome |-> "fatal", ret |-> NoRet]

\* create_program: the reply to the link request
CreateProgramRecvLink ==
    LET r == LinkResult(Head(reply), programs)
    IN  /\ Recv("cp_link")
        /\ SendMore(<<>>)
        /\ programs' = r.programs
        /\ pc' = PcAfter(r.outcome)
        /\ last' = [last EXCEPT !.outcome = r.outcome, !.ret = r.ret,
                                !.stage = IF r.outcome = "fatal" THEN @ ELSE "done"]
        /\ UNCHANGED <<args, common_array_buffer, meshes, environments, hist>>

\* mesh::Mesh::new(num_vert) with the one attribute create_mesh pushes
NewMesh(num_vert, buffer, count, stride) ==
    [num_vert |-> num_vert,
     attributes |-> <<[buffer |-> buffer, size |-> count, offset |-> 0,
                       stride |-> stride, is_normalized |-> FALSE,
                       is_interpolated |-> FALSE, name |-> "a_Pos"]>>]

\* mutant: handles count from 1
NextHandleFromOne(cache) == Len(cache) + 1

\* create_mesh, line 159, and create_environment, line 181: the handle is
\* the length of the cache before the push
NextHandle(cache) == Len(cache)

\* create_mesh(num_vert, data, count, stride), up to the recv
CreateMesh(num_vert, data, count, stride) ==
    /\ Enter
    /\ Len(meshes) < MaxCache
    /\ SendFirst(<<<<"CallNewVertexBuffer", data>>>>)
    /\ pc' = "cm_buf"
    /\ args' = [num_vert |-> num_vert, data |-> data, count |-> count,
                stride |-> stride]
    /\ last' = LastOf("create_mesh", args', "running", "buffer", NoRet)
    /\ UNCHANGED <<reply, common_array_buffer, meshes, programs, environments, hist>>

\* create_mesh: the reply to the vertex buffer request
CreateMeshRecv ==
    LET rep == Head(reply)
    IN  /\ Recv("cm_buf")
        /\ SendMore(<<>>)
        /\ args' = NoArgs
        /\ IF Kind(rep) = "ReplyNewBuffer"
           THEN /\ meshes' = Append(meshes,
                       NewMesh(args.num_vert, rep[2], args.count, args.stride))
                /\ pc' = "returned"
                /\ last' = [last EXCEPT !.outcome = "ok", !.stage = "done",
                                        !.ret = Some(NextHandle(meshes))]
           ELSE /\ pc' = "failed"
                /\ last' = [last EXCEPT !.outcome = "fatal"]
                /\ UNCHANGED meshes
        /\ UNCHANGED <<common_array_buffer, programs, environments, hist>>

\* create_index_buffer(data) and create_raw_buffer(), up to the recv
CreateBuffer(op, call) ==
    /\ EnterFree
    /\ SendFirst(<<call>>)
    /\ pc' = "buf"
    /\ last' = LastOf(op, NoArgs, "running", "buffer", NoRet)
    /\ UNCHANGED <<args, reply, common_array_buffer, meshes, programs,
                   environments, hist>>

CreateIndexBuffer(data) == CreateBuffer("create_index_buffer", <<"CallNewIndexBuffer", data>>)

CreateRawBuffer == CreateBuffer("create_raw_buffer", <<"CallNewRawBuffer">>)

\* create_index_buffer / create_raw_buffer: the reply
CreateBufferRecv ==
    LET rep == Head(reply)
    IN  /\ Recv("buf")
        /\ SendMore(<<>>)
        /\ IF Kind(rep) = "ReplyNewBuffer"
           THEN /\ pc' = "returned"
                /\ last' = [last EXCEPT !.outcome = "ok", !.stage = "done",
                                        !.ret = Some(rep[2])]
           ELSE /\ pc' = "failed"
                /\ last' = [last EXCEPT !.outcome = "fatal"]
        /\ UNCHANGED <<args, common_array_buffer, meshes, programs, environments, hist>>

\* create_environment(storage)
CreateEnvironment(storage) ==
    /\ Enter
    /\ Len(environments) < MaxCache
    /\ SendFirst(<<>>)
    /\ environments' = Append(environments, storage)
    /\ pc' = "returned"
    /\ last' = LastOf("create_environment", NoArgs, "ok", "done",
                    Some(NextHandle(environments)))
    /\ UNCHANGED <<args, reply, common_array_buffer, meshes, programs, hist>>

\* the setter of envir::Storage that operation op calls
ApplySet(op, st, a) ==
    IF op = "set_env_block" THEN set_block(st, a.var, a.value)
    ELSE IF op = "set_env_uniform" THEN set_uniform(st, a.var, a.value)
    ELSE set_texture(st, a.var, a.value[1], a.value[2])

\* set_env_block / set_env_uniform / set_env_texture: get_mut(handle), then
\* the storage's setter
SetEnv(op, a) ==
    /\ Enter
    /\ SendFirst(<<>>)
    /\ IF InCache(a.handle, environments)
       THEN /\ environments' = [environments EXCEPT
                   ![a.handle + 1] = ApplySet(op, Get(environments, a.handle), a)]
            /\ pc' = "returned"
            /\ last' = LastOf(op, a, "ok", "done", NoRet)
            /\ hist' = LogSet(hist, op, a, environments)
       ELSE /\ pc' = "failed"
            /\ last' = LastOf(op, a, "fatal", "environment", NoRet)
            /\ UNCHANGED <<environments, hist>>
    /\ UNCHANGED <<args, reply, common_array_buffer, meshes, programs>>

SetEnvBlock(handle, var, buf) ==
    SetEnv("set_env_block", [handle |-> handle, var |-> var, value |-> buf])

SetEnvUniform(handle, var, value) ==
    SetEnv("set_env_uniform", [handle |-> handle, var |-> var, value |-> value])

SetEnvTexture(handle, var, texture, sampler) ==
    SetEnv("set_env_texture",
           [handle |-> handle, var |-> var, value |-> <<texture, sampler>>])

\* the operation has returned to the application, which drops its result
Return ==
    /\ pc = "returned"
    /\ pc' = "idle"
    /\ sent' = <<>>
    /\ last' = LastOf("none", NoArgs, "ok", "done", NoRet)
    /\ UNCHANGED <<args, chan, reply, common_array_buffer, meshes, programs,
                   environments, outstanding, hist, nops>>

\* update_buffer(buf, data)
UpdateBuffer(buf, data) ==
    /\ EnterFree
    /\ SendFirst(<<<<"CastUpdateBuffer", buf, data>>>>)
    /\ pc' = "returned"
    /\ last' = LastOf("update_buffer", [buf |-> buf, data |-> data], "ok", "done", NoRet)
    /\ UNCHANGED <<args, reply, common_array_buffer, meshes, programs,
                   environments, hist>>

----------------------------------------------------------------------------
(* The executor: answers the Call* requests in the order sent.  Its processing *)
(* of a Cast* command has no effect the renderer can observe; the commands     *)
(* are kept, in the order sent, in `sent`.                                     *)

\* a reply of a kind no request of the renderer expects in its place
WrongReply(m) ==
    IF Kind(m) \in {"CallNewVertexBuffer", "CallNewIndexBuffer", "CallNewRawBuffer"}
    THEN <<"ReplyNewShader", None>>
    ELSE <<"ReplyNewBuffer", 1>>

\* the replies the executor may give to request m
Replies(m) ==
    {WrongReply(m)} \cup
    CASE Kind(m) = "CallNewArrayBuffer" ->
            {<<"ReplyNewArrayBuffer", ab>> : ab \in ArrayBufferNames}
      [] Kind(m) = "CallNewShader" ->
            {<<"ReplyNewShader", None>>}
               \cup {<<"ReplyNewShader", Some(n)>> : n \in ShaderNames}
      [] Kind(m) = "CallNewProgram" ->
            {<<"ReplyNewProgram", "Err">>}
               \cup {<<"ReplyNewProgram", "Ok", prog>> : prog \in ProgramMetas}
      [] OTHER ->
            {<<"ReplyNewBuffer", b>> : b \in BufferNames}

\* the executor has returned r: a vertex-array handle is kept in the history
LogReply(h, r) ==
    IF Kind(r) = "ReplyNewArrayBuffer" THEN [h EXCEPT !.ab_reply = Some(r[2])] ELSE h

\* the executor answers the oldest request
DevStep ==
    /\ pc # "failed"
    /\ chan # <<>>
    /\ chan' = Tail(chan)
    /\ \E r \in Replies(Head(chan)) :
          /\ reply' = Append(reply, r)
          /\ hist' = LogReply(hist, r)
    /\ UNCHANGED <<pc, args, common_array_buffer, meshes, programs, environments,
                   sent, last, outstanding, nops>>

----------------------------------------------------------------------------

Next ==
    \/ \E c \in ClearColors : Clear(c, None)
    \/ Clear(Some("red"), Some("frame"))
    \/ \E m \in Handles, s \in Slices, p \in Handles, e \in Handles :
          Draw(m, s, None, p, e)
    \/ Draw(0, VertexSlice(0, 3), Some("frame"), 0, 0)
    \/ DrawRecvArrayBuffer
    \/ EndFrame
    \/ \E vs \in ShaderSources, fs \in ShaderSources : CreateProgram(vs, fs)
    \/ CreateProgramRecvVs
    \/ CreateProgramRecvFs
    \/ CreateProgramRecvLink
    \/ \E l \in MeshLayouts : CreateMesh(3, "verts", l[1], l[2])
    \/ CreateMeshRecv
    \/ CreateIndexBuffer("indices")
    \/ CreateRawBuffer
    \/ CreateBufferRecv
    \/ \E st \in Storages : CreateEnvironment(st)
    \/ \E h \in Handles, v \in BlockNames, b \in BufferNames : SetEnvBlock(h, v, b)
    \/ \E h \in Handles, v \in UniformNames, x \in UniformValues : SetEnvUniform(h, v, x)
    \/ \E h \in Handles, v \in TextureNames : SetEnvTexture(h, v, 1, 1)
    \/ UpdateBuffer(1, "verts")
    \/ Return
    \/ DevStep

Spec == Init /\ [][Next]_vars

----------------------------------------------------------------------------
(* Properties of draw *)

\* the state is inside or right after a call of draw whose handles a.program
\* and a.env are issued ones
DrawCall == last.op = "draw" /\ InCache(last.a.program, programs)
                             /\ InCache(last.a.env, environments)

DrawProgram == Get(programs, last.a.program)

DrawEnv == Get(environments, last.a.env)

\* the environment lacks a name the program declares
LacksName(env, prog) ==
    \/ \E i \in 1 .. Len(prog.blocks) : prog.blocks[i].name \notin DOMAIN env.blocks
    \/ \E i \in 1 .. Len(prog.uniforms) : prog.uniforms[i].name \notin DOMAIN env.uniforms
    \/ \E i \in 1 .. Len(prog.textures) : prog.textures[i].name \notin DOMAIN env.textures

LacksUniform(env, prog) ==
    \E i \in 1 .. Len(prog.uniforms) : prog.uniforms[i].name \notin DOMAIN env.uniforms

\* the call has got past bind_frame and get_common_array_buffer
ReachedOptimize == pc \in {"returned", "failed"} /\ last.stage \notin {"frame", "array_buffer"}

BindKinds == {"CastBindFrameBuffer", "CastBindArrayBuffer", "CastBindProgram",
              "CastBindUniformBlock", "CastBindUniform", "CastBindAttribute",
              "CastBindIndex"}

DrawKinds == {"CastDraw", "CastDrawIndexed"}

\* C1: in a draw call whose environment lacks a name its program declares, no
\* draw or draw-indexed command is sent, and once the call has reached the
\* optimize step, that step fails and draw returns normally (the draw is
\* skipped; it is no fatal fault).
C1_MissingNameSkipsDraw ==
    (DrawCall /\ LacksName(DrawEnv, DrawProgram)) =>
        /\ OfKinds(sent, DrawKinds) = <<>>
        /\ ReachedOptimize =>
              /\ pc = "returned"
              /\ last.outcome = "skipped"
              /\ last.stage = "optimize"

\* a draw was skipped for an environment that lacks a name
C1_Witness ==
    /\ DrawCall
    /\ LacksName(DrawEnv, DrawProgram)
    /\ pc = "returned"
    /\ last.outcome = "skipped"

\* C2 as stated: a draw on the default target whose program requires a uniform
\* the environment lacks sends no bind command and no draw command at all.
C2_Original ==
    (DrawCall /\ last.a.frame = None /\ LacksUniform(DrawEnv, DrawProgram)) =>
        OfKinds(sent, BindKinds \cup DrawKinds) = <<>>

\* C2, amended: such a draw sends exactly one fire-and-forget command, the
\* bind-frame-buffer(default) of bind_frame, which precedes the optimize step;
\* it sends no bind-array-buffer, bind-program, bind-uniform-block,
\* bind-uniform, bind-attribute, bind-index, draw or draw-indexed command.
C2_OnlyFrameBound ==
    (DrawCall /\ last.a.frame = None /\ LacksUniform(DrawEnv, DrawProgram)) =>
        Casts(sent) = <<<<"CastBindFrameBuffer", default_frame_buffer>>>>

\* a draw on the default target was skipped because a uniform is missing
C2_Witness ==
    /\ DrawCall
    /\ last.a.frame = None
    /\ LacksUniform(DrawEnv, DrawProgram)
    /\ pc = "returned"
    /\ last.outcome = "skipped"

DrawMesh == Get(meshes, last.a.mesh)

\* a draw has returned after sending its draw command
DrawSucceeded ==
    /\ DrawCall
    /\ InCache(last.a.mesh, meshes)
    /\ pc = "returned"
    /\ last.outcome = "ok"

\* the scenario of C3: a successful draw on the default target, slice [0,3),
\* a mesh with the one attribute a_Pos (size 3, offset 0, stride 12), a program
\* that declares attribute a_Pos and nothing else, an empty environment
C3_Scenario ==
    /\ DrawSucceeded
    /\ last.a.frame = None
    /\ last.a.slice = VertexSlice(0, 3)
    /\ Len(DrawMesh.attributes) = 1
    /\ DrawMesh.attributes[1].name = "a_Pos"
    /\ DrawMesh.attributes[1].size = 3
    /\ DrawMesh.attributes[1].offset = 0
    /\ DrawMesh.attributes[1].stride = 12
    /\ Len(DrawProgram.attributes) = 1
    /\ DrawProgram.attributes[1].name = "a_Pos"
    /\ DrawProgram.blocks = <<>>
    /\ DrawProgram.uniforms = <<>>
    /\ DrawProgram.textures = <<>>
    /\ DrawEnv = Storage(NoBinding, NoBinding, NoBinding)

C3_BindAttribute ==
    <<"CastBindAttribute", DrawProgram.attributes[1].location,
      DrawMesh.attributes[1].buffer, 3, 0, 12>>

\* C3 as stated: the commands of the scenario are bind-frame-buffer(default),
\* bind-array-buffer, bind-program, bind-attribute, draw(0,3), in this order.
C3_Original ==
    C3_Scenario =>
        Casts(sent) = << <<"CastBindFrameBuffer", default_frame_buffer>>,
                         <<"CastBindArrayBuffer", common_array_buffer[1]>>,
                         <<"CastBindProgram", DrawProgram.name>>,
                         C3_BindAttribute,
                         <<"CastDraw", 0, 3>> >>

\* C3, amended: the commands of the scenario are bind-frame-buffer(default),
\* bind-program, bind-array-buffer, bind-attribute(a_Pos slot, mesh buffer,
\* 3, 0, 12), draw(0,3), in this order: the program is bound before the shared
\* vertex array.
C3_ScenarioCommands ==
    C3_Scenario =>
        Casts(sent) = << <<"CastBindFrameBuffer", default_frame_buffer>>,
                         <<"CastBindProgram", DrawProgram.name>>,
                         <<"CastBindArrayBuffer", common_array_buffer[1]>>,
                         C3_BindAttribute,
                         <<"CastDraw", 0, 3>> >>

\* the scenario of C3 has been run
C3_Witness == C3_Scenario

\* C4: a successful draw with a vertex-range slice (start, end) sends exactly
\* one draw(start, end) and no bind-index and no draw-indexed command; with an
\* indexed slice (buf, start, end) it sends exactly one bind-index(buf) and
\* exactly one draw-indexed(start, end), the second right after the first.
C4_SliceCommands ==
    DrawSucceeded =>
        LET sl  == last.a.slice
            cs  == OfKinds(sent, DrawKinds \cup {"CastBindIndex"})
            n   == Len(sent)
        IN  IF sl[1] = "VertexSlice"
            THEN cs = << <<"CastDraw", sl[2], sl[3]>> >>
            ELSE /\ cs = << <<"CastBindIndex", sl[2]>>,
                            <<"CastDrawIndexed", sl[3], sl[4]>> >>
                 /\ \E i \in 1 .. (n - 1) :
                       /\ sent[i] = <<"CastBindIndex", sl[2]>>
                       /\ sent[i + 1] = <<"CastDrawIndexed", sl[3], sl[4]>>

\* a draw with an indexed slice has succeeded
C4_Witness == DrawSucceeded /\ last.a.slice[1] = "IndexSlice"

\* C5: the draw or draw-indexed command of a draw call is the last message the
\* call sends, so every bind command of the call is sent before it.
C5_DrawCommandLast ==
    last.op = "draw" =>
        \A i \in 1 .. Len(sent) : IsDrawCmd(sent[i]) => i = Len(sent)

\* a draw has sent uniform-block, uniform, attribute and index binds and then
\* its draw command
C5_Witness ==
    /\ DrawSucceeded
    /\ OfKinds(sent, {"CastBindUniformBlock"}) # <<>>
    /\ OfKinds(sent, {"CastBindUniform"}) # <<>>
    /\ OfKinds(sent, {"CastBindAttribute"}) # <<>>
    /\ OfKinds(sent, {"CastBindIndex"}) # <<>>
    /\ IsDrawCmd(sent[Len(sent)])

\* the shortcut the draw handed to bind_environment
DrawCut == last.cut[1]

\* C9: a draw that reaches the optimize step with an environment that has
\* every name the program declares gets a shortcut, and every shortcut handed
\* to bind_environment has, per category, one entry per declared variable, in
\* declared order; the is_fit assertion of bind_environment never fails.
C9_ShortcutFits ==
    (DrawCall /\ ReachedOptimize) =>
        /\ ~LacksName(DrawEnv, DrawProgram) => last.cut # None
        /\ last.stage # "is_fit"
        /\ last.cut # None =>
              /\ Len(DrawCut.blocks) = Len(DrawProgram.blocks)
              /\ Len(DrawCut.uniforms) = Len(DrawProgram.uniforms)
              /\ Len(DrawCut.textures) = Len(DrawProgram.textures)
              /\ \A i \in 1 .. Len(DrawProgram.blocks) :
                    DrawCut.blocks[i] = DrawProgram.blocks[i].name
              /\ \A i \in 1 .. Len(DrawProgram.uniforms) :
                    DrawCut.uniforms[i] = DrawProgram.uniforms[i].name
              /\ \A i \in 1 .. Len(DrawProgram.textures) :
                    DrawCut.textures[i] = DrawProgram.textures[i].name

\* bind_environment has run with a shortcut of one block and two uniforms
C9_Witness ==
    /\ DrawCall
    /\ ReachedOptimize
    /\ last.cut # None
    /\ Len(DrawCut.blocks) = 1
    /\ Len(DrawCut.uniforms) = 2
    /\ OfKinds(sent, {"CastBindProgram"}) # <<>>

----------------------------------------------------------------------------
(* Properties of create_program and of the request / reply protocol *)

\* C6: when the link request is answered with a link failure, create_program
\* returns the sentinel handle 0 and the program cache is what it was before
\* the call.
C6_LinkFailure ==
    (last.op = "create_program" /\ last.outcome = "link_failed") =>
        /\ pc = "returned"
        /\ last.ret = Some(0)
        /\ programs = last.a.before

\* create_program has failed to link with a program already in the cache
C6_Witness ==
    /\ last.op = "create_program"
    /\ last.outcome = "link_failed"
    /\ programs # <<>>

\* C7 as stated: a create_program whose link succeeds never returns the
\* sentinel handle 0.
C7_Original ==
    (last.op = "create_program" /\ last.outcome = "ok") =>
        last.ret # Some(InvalidProgramHandle)

\* C10 as stated: at most one synchronous request is outstanding (sent and
\* not yet answered to the renderer).
C10_Original == outstanding <= 1

----------------------------------------------------------------------------
(* bind_mesh as a function of its inputs: meshes of up to MaxAttrs attributes, *)
(* programs that declare up to MaxAttrs attributes                             *)

MeshAttribute(n, buf, size, offset, stride) ==
    [buffer |-> buf, size |-> size, offset |-> offset, stride |-> stride,
     is_normalized |-> FALSE, is_interpolated |-> FALSE, name |-> n]

MeshAttributes ==
    {MeshAttribute(n, b, l[1], l[2], l[3]) :
        n \in {"a_Pos", "a_Normal"}, b \in BufferNames,
        l \in {<<3, 0, 12>>, <<2, 12, 20>>}}

ProgramAttributes ==
    {AttributeVar("a_Pos", 0), AttributeVar("a_Normal", 1), AttributeVar("a_Color", 2)}

\* the sequences over S of length at most n
SeqsUpTo(S, n) == UNION {[1 .. k -> S] : k \in 0 .. n}

BindMeshInputs ==
    {[mesh |-> [num_vert |-> 3, attributes |-> ma],
      prog |-> ProgramMeta(1, pa, <<>>, <<>>, <<>>)] :
        ma \in SeqsUpTo(MeshAttributes, MaxAttrs),
        pa \in SeqsUpTo(ProgramAttributes, MaxAttrs)}

InitBindMesh ==
    /\ pc = "idle"
    /\ args \in BindMeshInputs
    /\ chan = <<>>
    /\ reply = <<>>
    /\ common_array_buffer = None
    /\ meshes = <<>>
    /\ programs = <<>>
    /\ environments = <<>>
    /\ sent = <<>>
    /\ last = LastOf("none", NoArgs, "ok", "done", NoRet)
    /\ outstanding = 0
    /\ hist = HistInit
    /\ nops = 0

\* Renderer::bind_mesh(device, mesh, prog)
BindMeshCall ==
    LET r == bind_mesh(args.mesh, args.prog)
    IN  /\ pc = "idle"
        /\ pc' = "returned"
        /\ sent' = r.cmds
        /\ last' = LastOf("bind_mesh", args, IF r.ok THEN "ok" ELSE "err", "done", NoRet)
        /\ UNCHANGED <<args, chan, reply, common_array_buffer, meshes, programs,
                       environments, outstanding, hist, nops>>

NextBindMesh == BindMeshCall

SpecBindMesh == InitBindMesh /\ [][NextBindMesh]_vars

\* the first attribute of mesh named n
FirstNamed(mesh, n) ==
    mesh.attributes[CHOOSE j \in 1 .. Len(mesh.attributes) :
                       /\ mesh.attributes[j].name = n
                       /\ \A k \in 1 .. (j - 1) : mesh.attributes[k].name # n]

\* C8: bind_mesh(M, P) succeeds if and only if every attribute name P declares
\* names an attribute of M; on success it has sent one bind-attribute command
\* per attribute P declares, in P's order, each with P's slot and the buffer,
\* size, offset and stride of the first attribute of M with that name.
C8_BindMesh ==
    (last.op = "bind_mesh") =>
        LET M     == last.a.mesh
            P     == last.a.prog
            names == {M.attributes[j].name : j \in 1 .. Len(M.attributes)}
            F(i)  == FirstNamed(M, P.attributes[i].name)
        IN  /\ last.outcome = "ok" <=>
                  \A i \in 1 .. Len(P.attributes) : P.attributes[i].name \in names
            /\ last.outcome = "ok" =>
                  /\ Len(sent) = Len(P.attributes)
                  /\ \A i \in 1 .. Len(P.attributes) :
                        sent[i] = <<"CastBindAttribute", P.attributes[i].location,
                                    F(i).buffer, F(i).size, F(i).offset, F(i).stride>>

\* bind_mesh has succeeded for a program of two attributes on a mesh whose two
\* attributes differ
C8_Witness ==
    /\ last.op = "bind_mesh"
    /\ last.outcome = "ok"
    /\ Len(last.a.prog.attributes) = 2
    /\ Len(last.a.mesh.attributes) = 2
    /\ last.a.mesh.attributes[1] # last.a.mesh.attributes[2]
    /\ last.a.mesh.attributes[1].name = last.a.mesh.attributes[2].name

----------------------------------------------------------------------------
(* Properties that span several operations *)

\* a draw that found the shared vertex array recorded has returned after
\* binding it
LaterDraw ==
    /\ DrawSucceeded
    /\ OfKinds(sent, {"CallNewArrayBuffer"}) = <<>>
    /\ OfKinds(sent, {"CastBindArrayBuffer"}) # <<>>

\* C11: over all the operations of a renderer the new-array-buffer request is
\* sent at most once, and every bind-array-buffer command of a draw carries
\* the vertex-array handle the executor returned for that request.
C11_ArrayBufferOnce ==
    /\ hist.ab_calls <= 1
    /\ last.op = "draw" =>
          \A i \in 1 .. Len(sent) :
             Kind(sent[i]) = "CastBindArrayBuffer" =>
                /\ hist.ab_calls = 1
                /\ hist.ab_reply = Some(sent[i][2])

\* a later draw has bound the vertex array an earlier draw requested
C11_Witness ==
    /\ LaterDraw
    /\ hist.ab_calls = 1
    /\ hist.ab_reply = Some(8)

\* C12 as stated, for uniforms: a draw that resolves, for a uniform of its
\* program, the value the uniform's active-value cell already holds (every
\* environment value differs from the cell's initial content, so an earlier
\* draw recorded it) sends no bind-uniform command for that uniform.
C12_Original ==
    [][ (pc = "idle" /\ last'.op = "draw" /\ last'.outcome = "ok") =>
           LET P == Get(programs, last'.a.program)
               E == Get(environments, last'.a.env)
           IN  \A i \in 1 .. Len(P.uniforms) :
                  P.uniforms[i].active_value = get_uniform(E, P.uniforms[i].name) =>
                     \A k \in 1 .. Len(sent') :
                        Kind(sent'[k]) = "CastBindUniform" =>
                           sent'[k][2] # P.uniforms[i].location ]_vars

\* this step is the successful end of a creation by operation op
Created(op) == last' # last /\ last'.op = op /\ last'.outcome = "ok"

\* the program but for its active-slot and active-value cells
Declared(prog) ==
    [name       |-> prog.name,
     attributes |-> prog.attributes,
     blocks     |-> [i \in 1 .. Len(prog.blocks) |-> prog.blocks[i].name],
     uniforms   |-> [i \in 1 .. Len(prog.uniforms) |->
                        <<prog.uniforms[i].name, prog.uniforms[i].location>>],
     textures   |-> prog.textures]

\* this step grows cache by one entry exactly when it is a creation by op,
\* which then returns the index of the new, last entry; it never shortens it
GrowsBy(op, cache, cacheAfter) ==
    /\ Len(cacheAfter) >= Len(cache)
    /\ Created(op) <=> Len(cacheAfter) # Len(cache)
    /\ Created(op) =>
          /\ Len(cacheAfter) = Len(cache) + 1
          /\ last'.ret = Some(Len(cache))
          /\ last'.ret = Some(Len(cacheAfter) - 1)

\* C13: handles are sequential and never reused.  Every step leaves each cache
\* at least as long as it was; a cache grows exactly in the successful
\* creation of its own kind, by one entry, and that creation returns the
\* number of entries the cache had before, the index of the new entry (so the
\* n-th creation returns n-1 and no two return the same handle); every handle
\* issued earlier still indexes the same mesh, the same program (but for its
\* active cells) and the same environment (changed only by a set_env_* call
\* on that handle).
C13_HandlesSequential ==
    [][ /\ GrowsBy("create_mesh", meshes, meshes')
        /\ GrowsBy("create_program", programs, programs')
        /\ GrowsBy("create_environment", environments, environments')
        /\ \A i \in 1 .. Len(meshes) : meshes'[i] = meshes[i]
        /\ \A i \in 1 .. Len(programs) : Declared(programs'[i]) = Declared(programs[i])
        /\ \A i \in 1 .. Len(environments) :
              environments'[i] # environments[i] =>
                 /\ last'.op \in {"set_env_block", "set_env_uniform", "set_env_texture"}
                 /\ last'.a.handle = i - 1 ]_vars

\* the second mesh has got handle 1, next to a program and an environment
C13_Witness ==
    /\ last.op = "create_mesh"
    /\ last.outcome = "ok"
    /\ last.ret = Some(1)
    /\ Len(meshes) = 2
    /\ programs # <<>>
    /\ environments # <<>>

\* the kind of reply the recv at position p matches as well-formed
Expected(p) ==
    CASE p = "draw_ab"            -> "ReplyNewArrayBuffer"
      [] p \in {"cp_vs", "cp_fs"} -> "ReplyNewShader"
      [] p = "cp_link"            -> "ReplyNewProgram"
      [] OTHER                    -> "ReplyNewBuffer"

\* this step receives a reply that is not of the kind its request expects
ReceivesUnexpected ==
    /\ reply # <<>>
    /\ reply' = Tail(reply)
    /\ Kind(Head(reply)) # Expected(pc)

\* C14: whenever an operation receives, for one of its synchronous requests
\* (new-array-buffer, new-shader, new-program, new-vertex-buffer,
\* new-index-buffer, new-raw-buffer), a reply that is not of the expected
\* kind, it ends in a fatal fault: it returns no handle, the caches stay as
\* they are, and the shared vertex array stays unrecorded if it was being
\* created.
C14_UnexpectedReplyIsFatal ==
    [][ ReceivesUnexpected =>
           /\ pc' = "failed"
           /\ last'.outcome = "fatal"
           /\ last'.ret = NoRet
           /\ UNCHANGED <<meshes, programs, environments>>
           /\ pc = "draw_ab" => common_array_buffer' = None ]_vars

\* the first draw has died of a malformed reply to its new-array-buffer
\* request, with a program in the cache
C14_Witness ==
    /\ pc = "failed"
    /\ last.op = "draw"
    /\ last.stage = "array_buffer"
    /\ reply = <<>>
    /\ outstanding = 0
    /\ common_array_buffer = None
    /\ programs # <<>>

\* the bind-uniform commands the draw has sent, in order
DrawUniformCmds == OfKinds(sent, {"CastBindUniform"})

\* C18: last write wins across draws.  In every environment each uniform
\* written by set_env_uniform holds the value written last; a draw that has
\* sent its draw command has sent, for every uniform its program declares
\* and set_env_uniform has written on its environment handle, bind-uniform
\* with the value written last, whatever an earlier draw bound; and a draw is
\* skipped only while its environment still lacks a declared name, so a draw
\* skipped for want of a name is no longer skipped for it once set.
C18_LastWriteWins ==
    /\ \A h \in Handles : \A n \in DOMAIN hist.written[h] :
          /\ InCache(h, environments)
          /\ n \in DOMAIN Get(environments, h).uniforms
          /\ Get(environments, h).uniforms[n] = hist.written[h][n]
    /\ DrawSucceeded =>
          /\ Len(DrawUniformCmds) = Len(DrawProgram.uniforms)
          /\ \A i \in 1 .. Len(DrawProgram.uniforms) :
                DrawProgram.uniforms[i].name \in DOMAIN hist.written[last.a.env] =>
                   DrawUniformCmds[i] =
                      <<"CastBindUniform", DrawProgram.uniforms[i].location,
                        hist.written[last.a.env][DrawProgram.uniforms[i].name]>>
    /\ (DrawCall /\ last.outcome = "skipped") => LacksName(DrawEnv, DrawProgram)

\* a draw has bound the value set_env_uniform wrote after an earlier draw
\* with the same environment handle had bound another value for the uniform
C18_Witness ==
    /\ DrawSucceeded
    /\ \E i \in 1 .. Len(DrawProgram.uniforms) :
          /\ DrawProgram.uniforms[i].name \in hist.stale[last.a.env]
          /\ DrawUniformCmds[i] =
                <<"CastBindUniform", DrawProgram.uniforms[i].location,
                  hist.written[last.a.env][DrawProgram.uniforms[i].name]>>

\* a draw has succeeded with the environment handle of an earlier draw that
\* was skipped for want of a uniform set_env_uniform has written since
C18_SkippedThenSet ==
    /\ DrawSucceeded
    /\ \E i \in 1 .. Len(DrawProgram.uniforms) :
          DrawProgram.uniforms[i].name \in hist.filled[last.a.env]

\* the indices of the attributes prog declares that mesh has no attribute for
MissingAttributes(mesh, prog) ==
    {i \in 1 .. Len(prog.attributes) :
        \A j \in 1 .. Len(mesh.attributes) :
           mesh.attributes[j].name # prog.attributes[i].name}

\* the call has got to bind_mesh: it was not ended by its target, by the
\* reply to the new-array-buffer request, by optimize or by a texture
ReachedBindMesh ==
    /\ pc \in {"returned", "failed"}
    /\ last.stage \notin {"frame", "array_buffer", "optimize", "textures"}

\* C19: a draw whose program declares an attribute name no attribute of the
\* mesh has sends no draw, draw-indexed or bind-index command; once it has
\* got to bind_mesh it ends in a fatal fault, and what it has sent by then
\* stays sent: bind-frame-buffer, bind-program and the block and uniform
\* binds, bind-array-buffer, and one bind-attribute for each declared
\* attribute before the first missing one.
C19_AttributeMismatchIsFatal ==
    (DrawCall /\ InCache(last.a.mesh, meshes)
              /\ MissingAttributes(DrawMesh, DrawProgram) # {}) =>
        /\ OfKinds(sent, DrawKinds \cup {"CastBindIndex"}) = <<>>
        /\ ReachedBindMesh =>
              LET k  == Min(MissingAttributes(DrawMesh, DrawProgram))
                  E  == OfKinds(sent, {"CastBindProgram", "CastBindUniformBlock",
                                       "CastBindUniform"})
                  A  == [i \in 1 .. (k - 1) |->
                           LET vat == FirstNamed(DrawMesh, DrawProgram.attributes[i].name)
                           IN  <<"CastBindAttribute", DrawProgram.attributes[i].location,
                                 vat.buffer, vat.size, vat.offset, vat.stride>>]
              IN  /\ pc = "failed"
                  /\ last.outcome = "fatal"
                  /\ last.stage = "bind_mesh"
                  /\ Len(E) = 1 + Len(DrawProgram.blocks) + Len(DrawProgram.uniforms)
                  /\ E[1] = <<"CastBindProgram", DrawProgram.name>>
                  /\ Casts(sent) =
                        << <<"CastBindFrameBuffer", default_frame_buffer>> >> \o E
                        \o << <<"CastBindArrayBuffer", common_array_buffer[1]>> >> \o A

\* a draw has died in bind_mesh after binding the one attribute the mesh has
C19_Witness ==
    /\ DrawCall
    /\ InCache(last.a.mesh, meshes)
    /\ MissingAttributes(DrawMesh, DrawProgram) # {}
    /\ pc = "failed"
    /\ last.stage = "bind_mesh"
    /\ OfKinds(sent, {"CastBindAttribute"}) # <<>>

\* this step takes a reply from the reply channel
Receives == reply # <<>> /\ reply' = Tail(reply)

\* C20: request / reply balance.  When an operation has returned normally the
\* renderer has received as many replies as it has sent synchronous requests,
\* and neither a request nor a reply is left in the channels; a reply is only
\* ever received by create_program, create_mesh, create_index_buffer,
\* create_raw_buffer, or by a draw that found no shared vertex array recorded:
\* never by clear, end_frame, update_buffer, create_environment, set_env_block,
\* set_env_uniform, set_env_texture, or a draw once the vertex array exists.
C20_RequestReplyBalance ==
    [][ /\ pc' = "returned" =>
              /\ outstanding' = 0
              /\ chan' = <<>>
              /\ reply' = <<>>
        /\ Receives =>
              \/ last.op \in {"create_program", "create_mesh",
                              "create_index_buffer", "create_raw_buffer"}
              \/ last.op = "draw" /\ common_array_buffer = None
        /\ last'.op \in {"clear", "end_frame", "update_buffer", "create_environment",
                         "set_env_block", "set_env_uniform", "set_env_texture"} =>
              /\ UNCHANGED <<chan, reply, outstanding>>
              /\ pc' \in {"returned", "failed"} ]_vars

\* create_program has returned after three requests and three replies
C20_Witness ==
    /\ pc = "returned"
    /\ last.op = "create_program"
    /\ NumCalls(sent) = 3
    /\ outstanding = 0
    /\ reply = <<>>

----------------------------------------------------------------------------
(* Properties of clear and end_frame *)

\* this step is a whole call of operation op
WholeCall(op) == pc = "idle" /\ last'.op = op

\* C15: clear(data, no target) sends bind-frame-buffer(default) first and
\* then clear(c) exactly when data has the clear colour c; it sends nothing
\* else, sends no request and waits for no reply, and leaves the caches and
\* the shared vertex array as they are.
C15_Clear ==
    [][ (WholeCall("clear") /\ last'.a.frame = None) =>
           /\ sent' = IF last'.a.color = None
                      THEN << <<"CastBindFrameBuffer", default_frame_buffer>> >>
                      ELSE << <<"CastBindFrameBuffer", default_frame_buffer>>,
                              <<"CastClear", last'.a.color[1]>> >>
           /\ pc' \in {"returned", "failed"}
           /\ UNCHANGED <<chan, reply, outstanding>>
           /\ UNCHANGED <<meshes, programs, environments, common_array_buffer>> ]_vars

\* a clear with a colour has returned on a renderer with a mesh, a program
\* and the shared vertex array
C15_Witness ==
    /\ last.op = "clear"
    /\ pc = "returned"
    /\ last.a.frame = None
    /\ sent = << <<"CastBindFrameBuffer", default_frame_buffer>>, <<"CastClear", "red">> >>
    /\ common_array_buffer # None
    /\ meshes # <<>>
    /\ programs # <<>>

\* C16: end_frame sends exactly one swap-buffers command and nothing else,
\* and changes no local state: the three caches (with every program's
\* active-slot and active-value cells) and the shared vertex array are after
\* the call what they were before it.
C16_EndFrame ==
    [][ WholeCall("end_frame") =>
           /\ sent' = << <<"CastSwapBuffers">> >>
           /\ pc' = "returned"
           /\ UNCHANGED <<chan, reply, outstanding>>
           /\ UNCHANGED <<meshes, programs, environments, common_array_buffer>> ]_vars

\* end_frame has returned on a renderer whose program has recorded active
\* values
C16_Witness ==
    /\ last.op = "end_frame"
    /\ pc = "returned"
    /\ sent = << <<"CastSwapBuffers">> >>
    /\ common_array_buffer # None
    /\ \E i \in 1 .. Len(programs) :
          \E k \in 1 .. Len(programs[i].uniforms) :
             programs[i].uniforms[k].active_value # 0

----------------------------------------------------------------------------
(* bind_environment as a function of its inputs: programs that declare up to *)
(* MaxVars blocks and up to MaxVars uniforms, storages that have a binding   *)
(* for every name, and the shortcut optimize builds for the two              *)

BlockVars == {BlockVar("b_Data"), BlockVar("b_Extra")}

UniformVars == {UniformVar("u_Color", 3), UniformVar("u_Time", 5)}

FullStorages ==
    {Storage([n \in {"b_Data", "b_Extra"} |-> IF n = "b_Data" THEN b1 ELSE b2],
             [n \in {"u_Color", "u_Time"} |-> IF n = "u_Color" THEN v1 ELSE v2],
             [n \in {"t_Tex"} |-> <<1, 1>>]) :
        b1 \in BufferNames, b2 \in BufferNames,
        v1 \in UniformValues, v2 \in UniformValues}

BindEnvironmentInputs ==
    {[storage |-> st, program |-> ProgramMeta(1, <<>>, bs, us, ts),
      shortcut |-> optimize(st, ProgramMeta(1, <<>>, bs, us, ts)).cut] :
        st \in FullStorages,
        bs \in SeqsUpTo(BlockVars, MaxVars),
        us \in SeqsUpTo(UniformVars, MaxVars),
        ts \in {<<>>, <<TextureVar("t_Tex")>>}}

InitBindEnvironment ==
    /\ pc = "idle"
    /\ args \in BindEnvironmentInputs
    /\ chan = <<>>
    /\ reply = <<>>
    /\ common_array_buffer = None
    /\ meshes = <<>>
    /\ programs = <<args.program>>
    /\ environments = <<args.storage>>
    /\ sent = <<>>
    /\ last = LastOf("none", NoArgs, "ok", "done", NoRet)
    /\ outstanding = 0
    /\ hist = HistInit
    /\ nops = 0

\* Renderer::bind_environment(device, storage, shortcut, program)
BindEnvironmentCall ==
    LET r == bind_environment(args.storage, args.shortcut, args.program)
    IN  /\ pc = "idle"
        /\ pc' = IF r.fatal THEN "failed" ELSE "returned"
        /\ sent' = r.cmds
        /\ programs' = <<r.prog>>
        /\ last' = LastOf("bind_environment", args,
                          IF r.fatal THEN "fatal" ELSE "ok", "done", NoRet)
        /\ UNCHANGED <<args, chan, reply, common_array_buffer, meshes,
                       environments, outstanding, hist, nops>>

NextBindEnvironment == BindEnvironmentCall

SpecBindEnvironment == InitBindEnvironment /\ [][NextBindEnvironment]_vars

\* C17: for a program that declares no textures bind_environment sends one
\* bind-program command, then one bind-uniform-block command per declared
\* block, in declared order, then one bind-uniform command per declared
\* uniform, in declared order, with the uniform's declared location and the
\* environment's value for it, and nothing else; after it has returned each
\* active-value cell holds the value sent and each active-slot cell the slot
\* sent.
C17_BindEnvironment ==
    (last.op = "bind_environment" /\ last.a.program.textures = <<>>) =>
        LET P  == last.a.program
            S  == last.a.storage
            nb == Len(P.blocks)
            nu == Len(P.uniforms)
        IN  /\ pc = "returned"
            /\ Len(sent) = 1 + nb + nu
            /\ sent[1] = <<"CastBindProgram", P.name>>
            /\ \A i \in 1 .. nb :
                  /\ Kind(sent[1 + i]) = "CastBindUniformBlock"
                  /\ sent[1 + i][2] = P.name
                  /\ sent[1 + i][5] = S.blocks[P.blocks[i].name]
                  /\ programs[1].blocks[i].active_slot = sent[1 + i][3]
            /\ \A i \in 1 .. nu :
                  /\ sent[1 + nb + i] =
                        <<"CastBindUniform", P.uniforms[i].location,
                          S.uniforms[P.uniforms[i].name]>>
                  /\ programs[1].uniforms[i].active_value = sent[1 + nb + i][3]

\* bind_environment has returned for a program of two different blocks and
\* two different uniforms whose values differ
C17_Witness ==
    /\ last.op = "bind_environment"
    /\ pc = "returned"
    /\ Len(last.a.program.blocks) = 2
    /\ last.a.program.blocks[1] # last.a.program.blocks[2]
    /\ Len(last.a.program.uniforms) = 2
    /\ last.a.program.uniforms[1] # last.a.program.uniforms[2]
    /\ last.a.storage.uniforms["u_Color"] # last.a.storage.uniforms["u_Time"]
    /\ last.a.storage.blocks["b_Data"] # last.a.storage.blocks["b_Extra"]

====
